---------------------------- MODULE Spec2Model ----------------------------
(***************************************************************************)
(* Model of scripts/joint_solver.py: the request entry point (main), the   *)
(* backend path (solve_joint_allocation: utility configs, validation,      *)
(* feasibility pre-check, problem assembly, ordered solver retry loop),    *)
(* the fallback path (solve_sequential_fallback), the water_filling        *)
(* algorithm and the dispatch of the utility builders and evaluators.      *)
(*                                                                         *)
(* Numbers: the code computes in IEEE doubles; the model computes in exact *)
(* rational arithmetic (a rational is a pair <<num, den>> in lowest terms  *)
(* with den > 0).  Rounding error of the doubles is not modelled.          *)
(***************************************************************************)
EXTENDS Integers, Sequences, FiniteSets, TLC

VARIABLES req, cvxpy, pc, slv, fb, wf, proc, run

vars == <<req, cvxpy, pc, slv, fb, wf, proc, run>>

(***************************************************************************)
(* Bounds of the model                                                     *)
(***************************************************************************)
MaxAgents == 2      \* water_filling harness: n ranges over 1..MaxAgents
MaxWeight == 2      \* priority weights range over 0..MaxWeight
MaxVal    == 3      \* harness minimums and ideals range over 0..MaxVal
MaxCap    == 6      \* harness capacity ranges over 0..MaxCap
NAgents   == 2      \* declared n_agents of the grid requests
NResources == 2     \* declared n_resources of the grid requests
MaxReq    == 1      \* request minimums and ideals range over 0..MaxReq
MaxQ      == 2      \* request capacities range over 0..MaxQ
MaxPrio   == 1      \* request priority weights range over 0..MaxPrio

(***************************************************************************)
(* Exact rational arithmetic                                               *)
(***************************************************************************)
Abs(x) == IF x < 0 THEN -x ELSE x

RECURSIVE GCD(_, _)
GCD(a, b) == IF b = 0 THEN a ELSE GCD(b, a % b)

Norm(n, d) ==
    LET s == IF d < 0 THEN -1 ELSE 1
        g == GCD(Abs(n), Abs(d))
    IN  <<(s * n) \div g, (s * d) \div g>>

R(k) == <<k, 1>>
Zero == R(0)
One  == R(1)
\* the operations reduce by common factors before they multiply, so that
\* the intermediate products stay small
Common(x, y) == LET g == GCD(Abs(x), Abs(y)) IN IF g = 0 THEN 1 ELSE g
RAdd(a, b) ==
    LET g == Common(a[2], b[2])
    IN  Norm(a[1] * (b[2] \div g) + b[1] * (a[2] \div g), (a[2] \div g) * b[2])
RSub(a, b) ==
    LET g == Common(a[2], b[2])
    IN  Norm(a[1] * (b[2] \div g) - b[1] * (a[2] \div g), (a[2] \div g) * b[2])
RMul(a, b) ==
    LET g == Common(a[1], b[2])
        h == Common(b[1], a[2])
    IN  Norm((a[1] \div g) * (b[1] \div h), (a[2] \div h) * (b[2] \div g))
RDiv(a, b) ==
    LET g == Common(a[1], b[1])
        h == Common(a[2], b[2])
    IN  Norm((a[1] \div g) * (b[2] \div h), (a[2] \div h) * (b[1] \div g))
RLt(a, b)  == a[1] * b[2] < b[1] * a[2]
RLe(a, b)  == a[1] * b[2] <= b[1] * a[2]
RMin(a, b) == IF RLt(b, a) THEN b ELSE a
RMax(a, b) == IF RLt(a, b) THEN b ELSE a

\* sum of f over the finite index set S (np.sum)
RECURSIVE RSum(_, _)
RSum(f, S) ==
    IF S = {} THEN Zero
    ELSE LET i == CHOOSE x \in S : TRUE IN RAdd(f[i], RSum(f, S \ {i}))

RECURSIVE ISum(_, _)
ISum(f, S) ==
    IF S = {} THEN 0
    ELSE LET i == CHOOSE x \in S : TRUE IN f[i] + ISum(f, S \ {i})

\* an integer array as an array of doubles (astype(float))
AsFloat(a) == [i \in DOMAIN a |-> R(a[i])]

Idx(n) == 0 .. (n - 1)
Len0(a) == Cardinality(DOMAIN a)


(***************************************************************************)
(* water_filling(weights, mins, ideals, capacity)                          *)
(*                                                                         *)
(* The state of one call is a record: its arguments, its locals (alloc,    *)
(* remaining, frozen, the loop counter iter), its position pc              *)
(*   "entry" -> "loop" -> "clip" -> "returned"   (or "raised"),            *)
(* the exit path taken, the returned array out, and `last`, a snapshot of  *)
(* the locals before the most recent loop iteration together with what     *)
(* that iteration did.                                                     *)
(***************************************************************************)
MaxIter == 100          \* for _ in range(100)
EpsDen  == 1000000000   \* active_weight < 1e-9

Inf == <<1, 0>>         \* float('inf')

NoLast == [kind |-> "none", active |-> {}, alloc |-> <<>>, frozen |-> <<>>,
           remaining |-> Zero, bottleneck |-> -1, distributed |-> Zero]

WFIdle == [weights |-> <<>>, mins |-> <<>>, ideals |-> <<>>, capacity |-> Zero,
           alloc |-> <<>>, remaining |-> Zero, frozen |-> <<>>, iter |-> 0,
           pc |-> "idle", exit |-> "none", out |-> <<>>, last |-> NoLast]

\* the call: arguments bound, nothing executed yet
WFCall(weights, mins, ideals, capacity) ==
    [WFIdle EXCEPT !.weights = weights, !.mins = mins, !.ideals = ideals,
                   !.capacity = capacity, !.pc = "entry"]

\* WFEntry with remaining = capacity (the minimums not subtracted)
WFEntryNoMins(s) ==
    LET remaining == s.capacity
    IN  IF RLe(remaining, Zero)
        THEN [s EXCEPT !.alloc = s.mins, !.remaining = remaining,
                       !.pc = "returned", !.exit = "early", !.out = s.mins]
        ELSE [s EXCEPT !.alloc = s.mins, !.remaining = remaining,
                       !.frozen = [i \in DOMAIN s.weights |-> FALSE],
                       !.iter = 0, !.pc = "loop"]

\* lines 870-877: alloc = mins, remaining = capacity - sum(mins), early return
WFEntry(s) ==
    LET remaining == RSub(s.capacity, RSum(s.mins, DOMAIN s.mins))
    IN  IF RLe(remaining, Zero)
        THEN [s EXCEPT !.alloc = s.mins, !.remaining = remaining,
                       !.pc = "returned", !.exit = "early", !.out = s.mins]
        ELSE [s EXCEPT !.alloc = s.mins, !.remaining = remaining,
                       !.frozen = [i \in DOMAIN s.weights |-> FALSE],
                       !.iter = 0, !.pc = "loop"]

\* active = ~frozen & (alloc < ideals)
Active(s) == {i \in DOMAIN s.alloc : ~s.frozen[i] /\ RLt(s.alloc[i], s.ideals[i])}

\* numpy raises ValueError when the operands of an elementwise operation have
\* different lengths (lengths of 1 would broadcast; requests have n >= 2)
ShapeRaises(s) ==
    \/ DOMAIN s.alloc # DOMAIN s.ideals
    \/ DOMAIN s.frozen # DOMAIN s.alloc

\* active_weight < 1e-9, without multiplying by 10^9
LtEps(r) == IF r[1] <= 0 THEN TRUE ELSE r[1] <= (r[2] - 1) \div EpsDen

Slack(s, i) == RSub(s.ideals[i], s.alloc[i])
Share(s, aw, i, amount) == RMul(RDiv(s.weights[i], aw), amount)

Snapshot(s, act, kind, b, dist) ==
    [kind |-> kind, active |-> act, alloc |-> s.alloc, frozen |-> s.frozen,
     remaining |-> s.remaining, bottleneck |-> b, distributed |-> dist]

\* lines 885-890: degenerate split, each agent capped at its slack, then break
DegenerateStep(s, act) ==
    LET equal_share == RDiv(s.remaining, R(Cardinality(act)))
    IN  [s EXCEPT !.alloc = [i \in DOMAIN s.alloc |->
                                IF i \in act
                                THEN RAdd(s.alloc[i], RMin(equal_share, Slack(s, i)))
                                ELSE s.alloc[i]],
                  !.pc = "clip", !.exit = "degenerate",
                  !.last = Snapshot(s, act, "degenerate", -1, Zero)]

\* lines 892-902: scan the active agents in index order; a strictly smaller
\* fill ratio replaces the candidate
RECURSIVE BottleneckScan(_, _, _, _, _)
BottleneckScan(s, act, aw, i, best) ==
    IF i >= Len0(s.alloc) THEN best
    ELSE IF i \notin act THEN BottleneckScan(s, act, aw, i + 1, best)
    ELSE LET slack == Slack(s, i)
             share == Share(s, aw, i, s.remaining)
         IN  IF RLt(slack, share) /\ RLt(RDiv(slack, share), best.ratio)
             THEN BottleneckScan(s, act, aw, i + 1,
                                 [idx |-> i, ratio |-> RDiv(slack, share)])
             ELSE BottleneckScan(s, act, aw, i + 1, best)

\* Bottleneck that takes the first agent whose share exceeds its slack,
\* whatever its fill ratio
BottleneckFirst(s, act, aw) ==
    LET over == {i \in act : RLt(Slack(s, i), Share(s, aw, i, s.remaining))}
    IN  IF over = {} THEN [idx |-> -1, ratio |-> Inf]
        ELSE LET f == CHOOSE i \in over : \A k \in over : i <= k
             IN  [idx |-> f,
                  ratio |-> RDiv(Slack(s, f), Share(s, aw, f, s.remaining))]

Bottleneck(s, act, aw) == BottleneckScan(s, act, aw, 0, [idx |-> -1, ratio |-> Inf])

\* BottleneckStep that distributes all of remaining (fill ratio forgotten)
BottleneckStepAll(s, act, aw, b) ==
    LET to_distribute == s.remaining
        it == s.iter + 1
    IN  [s EXCEPT !.alloc = [i \in DOMAIN s.alloc |->
                                IF i = b.idx THEN s.ideals[i]
                                ELSE IF i \in act
                                THEN RAdd(s.alloc[i], Share(s, aw, i, to_distribute))
                                ELSE s.alloc[i]],
                  !.remaining = RSub(s.remaining, to_distribute),
                  !.frozen = [s.frozen EXCEPT ![b.idx] = TRUE],
                  !.iter = it,
                  !.pc = IF it >= MaxIter THEN "clip" ELSE "loop",
                  !.exit = IF it >= MaxIter THEN "cap" ELSE "none",
                  !.last = Snapshot(s, act, "bottleneck", b.idx, to_distribute)]

\* BottleneckStep that leaves `remaining` as it was
BottleneckStepKeep(s, act, aw, b) ==
    LET to_distribute == RMul(s.remaining, b.ratio)
        it == s.iter + 1
    IN  [s EXCEPT !.alloc = [i \in DOMAIN s.alloc |->
                                IF i = b.idx THEN s.ideals[i]
                                ELSE IF i \in act
                                THEN RAdd(s.alloc[i], Share(s, aw, i, to_distribute))
                                ELSE s.alloc[i]],
                  !.frozen = [s.frozen EXCEPT ![b.idx] = TRUE],
                  !.iter = it,
                  !.pc = IF it >= MaxIter THEN "clip" ELSE "loop",
                  !.exit = IF it >= MaxIter THEN "cap" ELSE "none",
                  !.last = Snapshot(s, act, "bottleneck", b.idx, to_distribute)]

\* BottleneckStep that does not mark the bottleneck as frozen
BottleneckStepNoFreeze(s, act, aw, b) ==
    LET to_distribute == RMul(s.remaining, b.ratio)
        it == s.iter + 1
    IN  [s EXCEPT !.alloc = [i \in DOMAIN s.alloc |->
                                IF i = b.idx THEN s.ideals[i]
                                ELSE IF i \in act
                                THEN RAdd(s.alloc[i], Share(s, aw, i, to_distribute))
                                ELSE s.alloc[i]],
                  !.remaining = RSub(s.remaining, to_distribute),
                  !.iter = it,
                  !.pc = IF it >= MaxIter THEN "clip" ELSE "loop",
                  !.exit = IF it >= MaxIter THEN "cap" ELSE "none",
                  !.last = Snapshot(s, act, "bottleneck", b.idx, to_distribute)]

\* lines 905-911: distribute remaining * min_fill_ratio, freeze the bottleneck
BottleneckStep(s, act, aw, b) ==
    LET to_distribute == RMul(s.remaining, b.ratio)
        it == s.iter + 1
    IN  [s EXCEPT !.alloc = [i \in DOMAIN s.alloc |->
                                IF i = b.idx THEN s.ideals[i]
                                ELSE IF i \in act
                                THEN RAdd(s.alloc[i], Share(s, aw, i, to_distribute))
                                ELSE s.alloc[i]],
                  !.remaining = RSub(s.remaining, to_distribute),
                  !.frozen = [s.frozen EXCEPT ![b.idx] = TRUE],
                  !.iter = it,
                  !.pc = IF it >= MaxIter THEN "clip" ELSE "loop",
                  !.exit = IF it >= MaxIter THEN "cap" ELSE "none",
                  !.last = Snapshot(s, act, "bottleneck", b.idx, to_distribute)]

\* FinalStep that gives every active agent all of remaining
FinalStepFull(s, act, aw) ==
    [s EXCEPT !.alloc = [i \in DOMAIN s.alloc |->
                            IF i \in act
                            THEN RAdd(s.alloc[i], s.remaining)
                            ELSE s.alloc[i]],
              !.remaining = Zero,
              !.pc = "clip", !.exit = "final",
              !.last = Snapshot(s, act, "final", -1, s.remaining)]

\* lines 913-917: distribute all of remaining proportionally, then break
FinalStep(s, act, aw) ==
    [s EXCEPT !.alloc = [i \in DOMAIN s.alloc |->
                            IF i \in act
                            THEN RAdd(s.alloc[i], Share(s, aw, i, s.remaining))
                            ELSE s.alloc[i]],
              !.remaining = Zero,
              !.pc = "clip", !.exit = "final",
              !.last = Snapshot(s, act, "final", -1, s.remaining)]

\* lines 880-917: one iteration of the loop
WFIterate(s) ==
    IF ShapeRaises(s) THEN [s EXCEPT !.pc = "raised", !.exit = "ValueError"]
    ELSE LET act == Active(s)
         IN  IF act = {}
             THEN [s EXCEPT !.pc = "clip", !.exit = "no_active",
                            !.last = Snapshot(s, act, "none", -1, Zero)]
             ELSE LET aw == RSum(s.weights, act)
                  IN  IF LtEps(aw) THEN DegenerateStep(s, act)
                      ELSE LET b == Bottleneck(s, act, aw)
                           IN  IF b.idx >= 0 /\ RLt(b.ratio, One)
                               THEN BottleneckStep(s, act, aw, b)
                               ELSE FinalStep(s, act, aw)

\* lines 919-920: alloc = np.maximum(mins, np.minimum(ideals, alloc)); return
WFClip(s) ==
    [s EXCEPT !.out = [i \in DOMAIN s.alloc |->
                          RMax(s.mins[i], RMin(s.ideals[i], s.alloc[i]))],
              !.pc = "returned"]

\* the call run to its end: water_filling as a function of its arguments
RECURSIVE WFRun(_)
WFRun(s) ==
    CASE s.pc = "entry" -> WFRun(WFEntry(s))
      [] s.pc = "loop" -> WFRun(WFIterate(s))
      [] s.pc = "clip" -> WFRun(WFClip(s))
      [] OTHER -> s

water_filling(weights, mins, ideals, capacity) ==
    WFRun(WFCall(weights, mins, ideals, capacity)).out

(***************************************************************************)
(* Utility configurations                                                  *)
(*                                                                         *)
(* A config is None (a JSON null) or a dict; of a dict the model keeps the *)
(* keys 'type' and 'rho'.  `utility_configs` of a request has one of three *)
(* forms: null/absent, one config object, an array of configs.             *)
(*                                                                         *)
(* A utility expression (what the builders return) and a utility value     *)
(* (what the evaluators return) are kept as terms: the formula selected    *)
(* (`form`, with `rho` for the general power form) and, for a value, the   *)
(* agent whose preference row it is evaluated with and the matrix whose    *)
(* row is the allocation (`at`).  The numbers themselves (powers,          *)
(* logarithms) are not computed.                                           *)
(***************************************************************************)
CfgNone == [isNone |-> TRUE, keys |-> {}, type |-> "", rho |-> Zero]

\* a dict with the given keys
Dict(keys, type, rho) ==
    [isNone |-> FALSE, keys |-> keys,
     type |-> IF "type" \in keys THEN type ELSE "",
     rho |-> IF "rho" \in keys THEN rho ELSE Zero]

\* cfg.get('type', 'LINEAR') and cfg.get('rho', 0.5)
GetType(cfg) == IF "type" \in cfg.keys THEN cfg.type ELSE "LINEAR"
GetRho(cfg) == IF "rho" \in cfg.keys THEN cfg.rho ELSE <<1, 2>>

NullConfigs == [form |-> "null", obj |-> CfgNone, arr |-> <<>>]
ObjectConfigs(cfg) == [form |-> "object", obj |-> cfg, arr |-> <<>>]
ArrayConfigs(arr) == [form |-> "array", obj |-> CfgNone, arr |-> arr]

\* Python truth value of utility_configs: None, {} and [] are false
Truthy(uc) ==
    CASE uc.form = "null" -> FALSE
      [] uc.form = "object" -> uc.obj.keys # {}
      [] OTHER -> DOMAIN uc.arr # {}

RAbs(r) == <<Abs(r[1]), r[2]>>
Tol == <<1, 100>>       \* 0.01

Expr(form, rho) == [form |-> form, rho |-> rho]

\* lines 82-105: the CES expression builder
compute_ces_utility(rho) ==
    IF RLt(RAbs(RSub(rho, One)), Tol) THEN Expr("linear", Zero)
    ELSE IF RLt(RAbs(rho), Tol) THEN Expr("cobb_douglas", Zero)
    ELSE IF RLt(rho, R(-10)) THEN Expr("cobb_douglas", Zero)
    ELSE Expr("power", rho)

\* lines 354-394: the expression of one agent's utility.  THRESHOLD stands
\* for the five composite types (its base utility left at the default)
get_utility_for_agent(cfg) ==
    IF cfg.isNone THEN Expr("linear", Zero)
    ELSE LET util_type == GetType(cfg)
         IN  CASE util_type = "LINEAR" -> Expr("linear", Zero)
               [] util_type = "SQRT" -> Expr("sqrt", Zero)
               [] util_type = "LOG" -> Expr("log", Zero)
               [] util_type = "COBB_DOUGLAS" -> Expr("cobb_douglas", Zero)
               [] util_type = "CES" -> compute_ces_utility(GetRho(cfg))
               [] util_type = "LEONTIEF" -> compute_ces_utility(R(-5))
               [] util_type = "THRESHOLD" -> Expr("threshold", Zero)
               [] OTHER -> Expr("linear", Zero)

Value(form, rho, agent, at) ==
    [form |-> form, rho |-> rho, agent |-> agent, at |-> at]

\* lines 422-429: the CES evaluator
eval_ces_utility_np(agent, at, rho) ==
    IF RLt(RAbs(RSub(rho, One)), Tol) THEN Value("linear", Zero, agent, at)
    ELSE IF RLt(RAbs(rho), Tol) THEN Value("cobb_douglas", Zero, agent, at)
    ELSE Value("power", rho, agent, at)

\* lines 572-612: the value of one agent's utility
eval_utility_np(agent, at, cfg) ==
    IF cfg.isNone THEN Value("linear", Zero, agent, at)
    ELSE LET util_type == GetType(cfg)
         IN  CASE util_type = "LINEAR" -> Value("linear", Zero, agent, at)
               [] util_type = "SQRT" -> Value("sqrt", Zero, agent, at)
               [] util_type = "LOG" -> Value("log", Zero, agent, at)
               [] util_type = "COBB_DOUGLAS" -> Value("cobb_douglas", Zero, agent, at)
               [] util_type = "CES" -> eval_ces_utility_np(agent, at, GetRho(cfg))
               [] util_type = "LEONTIEF" -> Value("min_ratio", Zero, agent, at)
               [] util_type = "THRESHOLD" -> Value("threshold", Zero, agent, at)
               [] OTHER -> Value("linear", Zero, agent, at)

\* lines 637-642: utility_configs as solve_joint_allocation resolves it
ResolveConfigs(uc, n) ==
    CASE uc.form = "null" -> [i \in Idx(n) |-> CfgNone]
      [] uc.form = "object" -> [i \in Idx(n) |-> uc.obj]
      [] OTHER -> uc.arr

\* line 849: cfg = utility_configs[i] if utility_configs else None; indexing
\* a dict with the integer i raises KeyError (JSON keys are strings)
FallbackConfig(uc, i) ==
    IF ~Truthy(uc) THEN [raises |-> "None", cfg |-> CfgNone]
    ELSE IF uc.form = "object" THEN [raises |-> "KeyError", cfg |-> CfgNone]
    ELSE IF i \notin DOMAIN uc.arr THEN [raises |-> "IndexError", cfg |-> CfgNone]
    ELSE [raises |-> "None", cfg |-> uc.arr[i]]

Link(rel, expr) == [rel |-> rel, expr |-> expr]

\* lines 715-750: the constraint that links u[i] to agent i's allocation
LinkConstraint(cfg) ==
    LET util_type == IF cfg.isNone THEN "LINEAR" ELSE GetType(cfg)
    IN  CASE util_type = "LINEAR" -> Link("==", Expr("linear", Zero))
          [] util_type = "SQRT" -> Link("<=", Expr("sqrt", Zero))
          [] util_type = "LOG" -> Link("<=", Expr("log", Zero))
          [] util_type = "COBB_DOUGLAS" -> Link("<=", Expr("cobb_douglas", Zero))
          [] util_type = "CES" ->
                LET rho == GetRho(cfg)
                IN  IF RLt(Zero, rho) /\ RLt(rho, One)
                    THEN Link("<=", Expr("power", rho))
                    ELSE Link("==", Expr("linear", Zero))
          [] util_type = "THRESHOLD" -> Link("<=", get_utility_for_agent(cfg))
          [] OTHER -> Link("==", Expr("linear", Zero))

\* lines 705-750: all_linear gives one vectorized equality, row i of which
\* is agent i's linear link; otherwise one constraint per agent
LinkConstraints(cfgs) ==
    LET all_linear == \A i \in DOMAIN cfgs :
                          cfgs[i].isNone \/ GetType(cfgs[i]) = "LINEAR"
    IN  IF all_linear
        THEN [i \in DOMAIN cfgs |-> Link("==", Expr("linear", Zero))]
        ELSE [i \in DOMAIN cfgs |-> LinkConstraint(cfgs[i])]

(***************************************************************************)
(* Idle values of the request-level state                                  *)
(***************************************************************************)
NoReq == [n |-> 0, m |-> 0, W_rows |-> 0, priority_weights |-> <<>>,
          capacities |-> <<>>, minimums |-> <<>>, ideals |-> <<>>,
          utility_configs |-> NullConfigs]

\* solve_joint_allocation's locals around the retry loop; `tried` logs the
\* loop iterations made so far, one [solver, outcome] per iteration
SlvIdle == [k |-> 0, used_solver |-> "None", solve_error |-> <<>>,
            status |-> "None", A_value |-> "None", tried |-> <<>>,
            mins |-> <<>>, utility_configs |-> <<>>, utilities |-> <<>>,
            min_utilities |-> <<>>, constraints |-> <<>>]

\* solve_sequential_fallback's locals; `calls` counts water_filling calls
FbIdle == [j |-> 0, allocations |-> <<>>, calls |-> 0]

\* the process: exit code (-1 while running), what was printed
ProcRunning == [exit_code |-> -1, stdout |-> <<>>, stderr |-> <<>>]

(***************************************************************************)
(* The three steps of a water_filling call                                 *)
(***************************************************************************)
WFBegin ==
    /\ wf.pc = "entry"
    /\ wf' = WFEntry(wf)
    /\ UNCHANGED <<req, cvxpy, pc, slv, fb, proc, run>>

WFLoop ==
    /\ wf.pc = "loop"
    /\ wf' = WFIterate(wf)
    /\ UNCHANGED <<req, cvxpy, pc, slv, fb, proc, run>>

WFReturn ==
    /\ wf.pc = "clip"
    /\ wf' = WFClip(wf)
    /\ UNCHANGED <<req, cvxpy, pc, slv, fb, proc, run>>

(***************************************************************************)
(* water_filling as a function: the inputs are drawn from a grid and from  *)
(* the documented scenarios, the call runs, and it is run once more on its *)
(* own output (the output as the new minimums).                            *)
(***************************************************************************)
\* the grid of harness inputs: n agents, integer weights, bounds and capacity
WFGridInput(w) ==
    \E n \in 1 .. MaxAgents :
      \E wt \in [Idx(n) -> 0 .. MaxWeight], mn \in [Idx(n) -> 0 .. MaxVal],
         id \in [Idx(n) -> 0 .. MaxVal], cap \in 0 .. MaxCap :
        w = WFCall(AsFloat(wt), AsFloat(mn), AsFloat(id), R(cap))

Arr2(a, b) == [i \in Idx(2) |-> IF i = 0 THEN a ELSE b]

\* a strictly positive weight so small that two of them sum to less than
\* 1e-9 (about 4.66e-10)
Tiny == <<1, 2147483647>>

\* the grid again with one or two agents whose weights are all Tiny
WFTinyInput(w) ==
    \E n \in 1 .. 2 :
      \E mn \in [Idx(n) -> 0 .. MaxVal], id \in [Idx(n) -> 0 .. MaxVal],
         cap \in 0 .. MaxCap :
        w = WFCall([i \in Idx(n) |-> Tiny], AsFloat(mn), AsFloat(id), R(cap))

WFScenarios ==
    { WFCall(AsFloat(Arr2(1, 1)), AsFloat(Arr2(0, 0)), AsFloat(Arr2(10, 10)), R(10)),
      WFCall(AsFloat(Arr2(1, 1)), AsFloat(Arr2(0, 0)), AsFloat(Arr2(3, 10)), R(10)),
      WFCall(AsFloat(Arr2(1, 1)), AsFloat(Arr2(6, 6)), AsFloat(Arr2(10, 10)), R(10)) }

InitWF ==
    /\ (WFGridInput(wf) \/ wf \in WFScenarios \/ WFTinyInput(wf))
    /\ run = [n |-> 1, first |-> <<>>]
    /\ pc = "harness"
    /\ req = NoReq
    /\ cvxpy = FALSE
    /\ slv = SlvIdle
    /\ fb = FbIdle
    /\ proc = ProcRunning

Rerun ==
    /\ pc = "harness"
    /\ wf.pc = "returned"
    /\ run.n = 1
    /\ run' = [n |-> 2, first |-> wf.out]
    /\ wf' = WFCall(wf.weights, wf.out, wf.ideals, wf.capacity)
    /\ UNCHANGED <<req, cvxpy, pc, slv, fb, proc>>

NextWF == WFBegin \/ WFLoop \/ WFReturn \/ Rerun

SpecWF == InitWF /\ [][NextWF]_vars

(***************************************************************************)
(* Properties of water_filling (checked under SpecWF)                      *)
(***************************************************************************)
REq(a, b) == a = b      \* rationals are kept in lowest terms

\* a valid input of one column: 0 <= min <= ideal, sum(min) <= capacity,
\* weights >= 0, all arrays of the same length
WFValid(s) ==
    /\ DOMAIN s.mins = DOMAIN s.weights
    /\ DOMAIN s.ideals = DOMAIN s.weights
    /\ \A i \in DOMAIN s.weights :
          /\ RLe(Zero, s.weights[i])
          /\ RLe(Zero, s.mins[i])
          /\ RLe(s.mins[i], s.ideals[i])
    /\ RLe(RSum(s.mins, DOMAIN s.mins), s.capacity)

WithinBounds(s, a) ==
    /\ \A i \in DOMAIN a : RLe(s.mins[i], a[i]) /\ RLe(a[i], s.ideals[i])
    /\ RLe(RSum(a, DOMAIN a), s.capacity)

\* the locals as they were before the most recent loop iteration
Prev(s) == [s EXCEPT !.alloc = s.last.alloc, !.frozen = s.last.frozen,
                     !.remaining = s.last.remaining]
PrevWeight(s) == RSum(s.weights, s.last.active)
PrevShare(s, i) == Share(Prev(s), PrevWeight(s), i, s.last.remaining)
PrevSlack(s, i) == Slack(Prev(s), i)
Added(s, i) == RSub(s.alloc[i], s.last.alloc[i])
Stepped(s) == s.last.kind \in {"bottleneck", "final", "degenerate"}

\* C4: water_filling is idempotent: run again with its own output as the
\* minimums (same weights, ideals, capacity) it returns that output.
C4_Idempotent ==
    (pc = "harness" /\ run.n = 2 /\ wf.pc = "returned") => wf.out = run.first

\* C5 as stated: with one agent the result is min(ideal, capacity) for
\* every minimum, ideal, capacity and weight.
C5_SingleAgentAnyInput ==
    (Len0(wf.weights) = 1 /\ wf.pc = "returned")
        => REq(wf.out[0], RMin(wf.ideals[0], wf.capacity))

\* C5 amended: with one agent and a valid input (0 <= min <= ideal and
\* min <= capacity) the result is min(ideal, capacity), for every weight.
C5_SingleAgentValidInput ==
    (Len0(wf.weights) = 1 /\ wf.pc = "returned" /\ WFValid(wf))
        => REq(wf.out[0], RMin(wf.ideals[0], wf.capacity))

C5_Witness ==
    /\ Len0(wf.weights) = 1
    /\ WFValid(wf)
    /\ wf.pc = "returned"
    /\ wf.exit = "final"
    /\ RLt(wf.mins[0], wf.out[0])
    /\ REq(wf.out[0], wf.capacity)
    /\ RLt(wf.capacity, wf.ideals[0])

Uniform(s) ==
    \A i, k \in DOMAIN s.weights :
        s.weights[i] = s.weights[k] /\ s.ideals[i] = s.ideals[k]

EqualAmounts(s) ==
    \A i, k \in s.last.active : REq(Added(s, i), Added(s, k))

Scenario55(s) ==
    /\ s.weights = AsFloat(Arr2(1, 1)) /\ s.mins = AsFloat(Arr2(0, 0))
    /\ s.ideals = AsFloat(Arr2(10, 10)) /\ s.capacity = R(10)

\* C6 as stated: with uniform weights and uniform ideals every distribution
\* step (bottleneck, final, degenerate) adds the same amount to every active
\* agent; weights [1,1], mins [0,0], ideals [10,10], capacity 10 give [5,5].
C6_EqualSplitEveryStep ==
    /\ (Uniform(wf) /\ Stepped(wf)) => EqualAmounts(wf)
    /\ (Scenario55(wf) /\ wf.pc = "returned") => wf.out = AsFloat(Arr2(5, 5))

\* C6 amended: with uniform weights and uniform ideals the bottleneck step
\* and the final proportional step add the same amount to every active
\* agent; the degenerate zero-weight step adds to each active agent the
\* equal share remaining/|active| capped at that agent's own slack; the
\* scenario gives [5,5].
C6_EqualSplitProportionalSteps ==
    /\ (Uniform(wf) /\ wf.last.kind \in {"bottleneck", "final"}) => EqualAmounts(wf)
    /\ (Uniform(wf) /\ wf.last.kind = "degenerate") =>
          \A i \in wf.last.active :
              REq(Added(wf, i),
                  RMin(RDiv(wf.last.remaining, R(Cardinality(wf.last.active))),
                       PrevSlack(wf, i)))
    /\ (Scenario55(wf) /\ wf.pc = "returned") => wf.out = AsFloat(Arr2(5, 5))

C6_Witness ==
    /\ Uniform(wf)
    /\ Len0(wf.weights) >= 2
    /\ wf.last.kind = "bottleneck"
    /\ Cardinality(wf.last.active) >= 2
    /\ \E i \in wf.last.active : RLt(Zero, Added(wf, i)) /\ ~wf.frozen[i]

Scenario37(s) ==
    /\ s.weights = AsFloat(Arr2(1, 1)) /\ s.mins = AsFloat(Arr2(0, 0))
    /\ s.ideals = AsFloat(Arr2(3, 10)) /\ s.capacity = R(10)

Overflows(s, i) == RLt(PrevSlack(s, i), PrevShare(s, i))
FillRatio(s, i) == RDiv(PrevSlack(s, i), PrevShare(s, i))

ShapeOK(r) ==
    /\ r.W_rows = r.n
    /\ Len0(r.priority_weights) = r.n
    /\ Len0(r.capacities) = r.m
    /\ Len0(r.minimums) = r.n
    /\ Len0(r.ideals) = r.n

\* `a` with one more entry, a copy of entry 0
Extend(a) == [i \in Idx(Len0(a) + 1) |-> IF i < Len0(a) THEN a[i] ELSE a[0]]

Shapes == {"ok", "preferences", "priority_weights", "capacities",
           "minimums", "ideals"}

\* a request declaring n agents and m resources; `shape` names the input that
\* is one row (or entry) longer than declared
MkReq(n, m, c, Q, mn, id, shape) ==
    [n |-> n, m |-> m,
     W_rows |-> IF shape = "preferences" THEN n + 1 ELSE n,
     priority_weights |-> IF shape = "priority_weights" THEN Extend(c) ELSE c,
     capacities |-> IF shape = "capacities" THEN Extend(Q) ELSE Q,
     minimums |-> IF shape = "minimums" THEN Extend(mn) ELSE mn,
     ideals |-> IF shape = "ideals" THEN Extend(id) ELSE id,
     utility_configs |-> NullConfigs]

GridRequest(r) ==
    \E c \in [Idx(NAgents) -> 0 .. MaxPrio],
       Q \in [Idx(NResources) -> 0 .. MaxQ],
       mn \in [Idx(NAgents) -> [Idx(NResources) -> 0 .. MaxReq]],
       id \in [Idx(NAgents) -> [Idx(NResources) -> 0 .. MaxReq]],
       shape \in Shapes :
        r = MkReq(NAgents, NResources, c, Q, mn, id, shape)

Col1(a, b) == [i \in Idx(2) |-> [j \in Idx(1) |-> IF i = 0 THEN a ELSE b]]
Vec1(a) == [j \in Idx(1) |-> a]

\* the documented scenarios: minimums [[6],[6]] against capacity [10];
\* ideals [[10],[10]] and [[3],[10]] with capacity [10]
ScenarioRequests ==
    { MkReq(2, 1, Arr2(1, 1), Vec1(10), Col1(6, 6), Col1(10, 10), "ok"),
      MkReq(2, 1, Arr2(1, 1), Vec1(10), Col1(0, 0), Col1(10, 10), "ok"),
      MkReq(2, 1, Arr2(1, 1), Vec1(10), Col1(0, 0), Col1(3, 10), "ok") }

\* the utility types of the configs ("QUADRATIC" is a type the code does not
\* know) and the values of rho given to CES
Types == {"LINEAR", "SQRT", "LOG", "COBB_DOUGLAS", "CES", "LEONTIEF",
          "THRESHOLD", "QUADRATIC"}
Rhos == {R(1), <<199, 200>>, R(0), <<-1, 200>>, <<1, 2>>, R(2), R(-5),
         R(-10), R(-11)}

\* the configs of the requests: null, {}, {"type": T}, {"type": "CES", "rho": r}
Configs ==
    {CfgNone, Dict({}, "", Zero)}
        \cup {Dict({"type"}, t, Zero) : t \in Types}
        \cup {Dict({"type", "rho"}, "CES", r) : r \in Rhos}

\* a request of two agents and one resource (minimums 0, ideals 10 and 3,
\* capacity 10) whose utility_configs has one of the three accepted forms
ConfiguredRequest(r) ==
    \E uc \in {NullConfigs} \cup {ObjectConfigs(c) : c \in Configs}
               \cup {ArrayConfigs(Arr2(c, d)) : c, d \in Configs} :
        r = [MkReq(2, 1, Arr2(1, 1), Vec1(10), Col1(0, 0), Col1(3, 10), "ok")
                EXCEPT !.utility_configs = uc]

Column(a, j) == [i \in DOMAIN a |-> a[i][j]]

\* min_totals = np.sum(mins, axis=0)
MinTotal(r, j) == ISum(Column(r.minimums, j), DOMAIN r.minimums)

\* np.minimum(mins, ideals)
Clamp(mn, id) ==
    [i \in DOMAIN mn |-> [j \in DOMAIN mn[i] |->
        IF id[i][j] < mn[i][j] THEN id[i][j] ELSE mn[i][j]]]

(***************************************************************************)
(* main(): how a call ends                                                 *)
(***************************************************************************)
\* lines 944-946: any exception is printed to stderr, exit code 1
Fatal(type) == [exit_code |-> 1, stdout |-> <<>>, stderr |-> <<type>>]

\* line 939: the result is printed to stdout
Printed(result) == [exit_code |-> 0, stdout |-> <<result>>, stderr |-> <<>>]

Init ==
    /\ (GridRequest(req) \/ req \in ScenarioRequests \/ ConfiguredRequest(req))
    /\ cvxpy \in BOOLEAN
    /\ pc = "start"
    /\ slv = SlvIdle
    /\ fb = FbIdle
    /\ wf = WFIdle
    /\ proc = ProcRunning
    /\ run = [n |-> 0, first |-> <<>>]

\* lines 925-936: read the request, pick the path
Main ==
    /\ pc = "start"
    /\ pc' = IF cvxpy THEN "joint_validate" ELSE "fallback"
    /\ UNCHANGED <<req, cvxpy, slv, fb, wf, proc, run>>

(***************************************************************************)
(* solve_joint_allocation                                                  *)
(***************************************************************************)
\* lines 644-649: the shape assertions
JointValidate ==
    /\ pc = "joint_validate"
    /\ IF ShapeOK(req)
       THEN pc' = "joint_check" /\ UNCHANGED proc
       ELSE pc' = "exit" /\ proc' = Fatal("AssertionError")
    /\ UNCHANGED <<req, cvxpy, slv, fb, wf, run>>

\* lines 653-661: the result of the feasibility pre-check for resource j
PreCheckResult(r, j) ==
    [status |-> "infeasible",
     error |-> <<[text |-> "sum of minimums exceeds capacity", resource |-> j,
                  min_total |-> MinTotal(r, j), capacity |-> r.capacities[j]]>>,
     allocations |-> r.minimums,
     objective |-> "-inf",
     solver |-> "none"]

\* lines 636-642 and 664-757: the locals before the retry loop, the problem
\* assembled: the resolved configs, the clamped minimums, each agent's utility
\* expression, minimum utility and linking constraint
Assemble(r) ==
    LET cfgs == ResolveConfigs(r.utility_configs, r.n)
    IN  [SlvIdle EXCEPT
            !.mins = Clamp(r.minimums, r.ideals),
            !.utility_configs = cfgs,
            !.utilities = [i \in Idx(r.n) |-> get_utility_for_agent(cfgs[i])],
            !.min_utilities = [i \in Idx(r.n) |-> eval_utility_np(i, "mins", cfgs[i])],
            !.constraints = LinkConstraints(cfgs)]

\* lines 651-664 (and the problem assembly up to line 757)
JointCheck ==
    /\ pc = "joint_check"
    /\ LET bad == {j \in Idx(req.m) : MinTotal(req, j) > req.capacities[j]}
       IN  IF bad # {}
           THEN LET j == CHOOSE x \in bad : \A y \in bad : x <= y
                IN  /\ proc' = Printed(PreCheckResult(req, j))
                    /\ pc' = "exit"
                    /\ UNCHANGED slv
           ELSE /\ slv' = Assemble(req)
                /\ pc' = "solve"
                /\ UNCHANGED proc
    /\ UNCHANGED <<req, cvxpy, fb, wf, run>>

solvers_to_try == <<"CLARABEL", "ECOS", "SCS">>

Acceptable == {"optimal", "optimal_inaccurate"}

\* what one loop iteration can meet: the name is missing from the backend
\* (getattr gives None), problem.solve raises (either except clause), or it
\* returns with a problem status ("infeasible" stands for every status that
\* is not acceptable)
Outcomes == {"missing", "raises", "infeasible", "optimal", "optimal_inaccurate"}

\* SolveStep in which an exception is swallowed without recording its reason
SolveStepSilent(s, outcome) ==
    LET name == solvers_to_try[s.k + 1]
        log == Append(s.tried, [solver |-> name, outcome |-> outcome])
    IN  IF outcome \in {"missing", "raises"}
        THEN [s EXCEPT !.k = s.k + 1, !.tried = log]
        ELSE IF outcome \in Acceptable
        THEN [s EXCEPT !.k = Len(solvers_to_try), !.tried = log,
                       !.status = outcome, !.A_value = name,
                       !.used_solver = name]
        ELSE [s EXCEPT !.k = s.k + 1, !.tried = log,
                       !.status = outcome, !.A_value = "None",
                       !.solve_error = <<[solver |-> name, text |-> outcome]>>]

\* SolveStep in which an exception ends the loop instead of moving on
SolveStepAbort(s, outcome) ==
    LET name == solvers_to_try[s.k + 1]
        log == Append(s.tried, [solver |-> name, outcome |-> outcome])
    IN  IF outcome = "missing"
        THEN [s EXCEPT !.k = s.k + 1, !.tried = log]
        ELSE IF outcome = "raises"
        THEN [s EXCEPT !.k = Len(solvers_to_try), !.tried = log,
                       !.solve_error = <<[solver |-> name, text |-> "raised"]>>]
        ELSE IF outcome \in Acceptable
        THEN [s EXCEPT !.k = Len(solvers_to_try), !.tried = log,
                       !.status = outcome, !.A_value = name,
                       !.used_solver = name]
        ELSE [s EXCEPT !.k = s.k + 1, !.tried = log,
                       !.status = outcome, !.A_value = "None",
                       !.solve_error = <<[solver |-> name, text |-> outcome]>>]

\* SolveStep that names the candidate as used_solver as soon as its solve
\* returns, whatever the status
SolveStepEager(s, outcome) ==
    LET name == solvers_to_try[s.k + 1]
        log == Append(s.tried, [solver |-> name, outcome |-> outcome])
    IN  IF outcome = "missing"
        THEN [s EXCEPT !.k = s.k + 1, !.tried = log]
        ELSE IF outcome = "raises"
        THEN [s EXCEPT !.k = s.k + 1, !.tried = log,
                       !.solve_error = <<[solver |-> name, text |-> "raised"]>>]
        ELSE IF outcome \in Acceptable
        THEN [s EXCEPT !.k = Len(solvers_to_try), !.tried = log,
                       !.status = outcome, !.A_value = name,
                       !.used_solver = name]
        ELSE [s EXCEPT !.k = s.k + 1, !.tried = log,
                       !.status = outcome, !.A_value = "None",
                       !.used_solver = name,
                       !.solve_error = <<[solver |-> name, text |-> outcome]>>]

\* lines 759-775: one iteration of the retry loop
SolveStep(s, outcome) ==
    LET name == solvers_to_try[s.k + 1]
        log == Append(s.tried, [solver |-> name, outcome |-> outcome])
    IN  IF outcome = "missing"
        THEN [s EXCEPT !.k = s.k + 1, !.tried = log]
        ELSE IF outcome = "raises"
        THEN [s EXCEPT !.k = s.k + 1, !.tried = log,
                       !.solve_error = <<[solver |-> name, text |-> "raised"]>>]
        ELSE IF outcome \in Acceptable
        THEN [s EXCEPT !.k = Len(solvers_to_try), !.tried = log,
                       !.status = outcome, !.A_value = name,
                       !.used_solver = name]
        ELSE [s EXCEPT !.k = s.k + 1, !.tried = log,
                       !.status = outcome, !.A_value = "None",
                       !.solve_error = <<[solver |-> name, text |-> outcome]>>]

SolverAttempt ==
    /\ pc = "solve"
    /\ \E outcome \in Outcomes :
         /\ slv' = SolveStep(slv, outcome)
         /\ pc' = IF slv'.k >= Len(solvers_to_try) THEN "finish" ELSE "solve"
    /\ UNCHANGED <<req, cvxpy, fb, wf, proc, run>>

\* lines 777-814: the result after the loop
JointResult(s) ==
    IF s.status \notin Acceptable
    THEN [status |-> "infeasible",
          error |-> IF s.solve_error # <<>> THEN s.solve_error
                    ELSE <<[solver |-> "none", text |-> "Problem status", status |-> s.status]>>,
          allocations |-> s.mins,
          objective |-> "-inf",
          solver |-> IF s.used_solver # "None" THEN s.used_solver ELSE "none"]
    ELSE [status |-> "optimal",
          error |-> <<>>,
          allocations |-> <<"A.value", s.A_value>>,
          objective |-> "problem.value",
          solver |-> s.used_solver,
          utilities |-> [i \in DOMAIN s.utility_configs |->
                            eval_utility_np(i, "allocations", s.utility_configs[i])],
          utility_types |-> [i \in DOMAIN s.utility_configs |->
                                IF s.utility_configs[i].isNone THEN "LINEAR"
                                ELSE GetType(s.utility_configs[i])]]

JointFinish ==
    /\ pc = "finish"
    /\ proc' = Printed(JointResult(slv))
    /\ pc' = "exit"
    /\ UNCHANGED <<req, cvxpy, slv, fb, wf, run>>

(***************************************************************************)
(* solve_sequential_fallback                                               *)
(***************************************************************************)
\* lines 823-835
FallbackEntry ==
    /\ pc = "fallback"
    /\ fb' = [j |-> 0,
              allocations |-> [i \in Idx(req.n) |-> [j \in Idx(req.m) |-> Zero]],
              calls |-> 0]
    /\ pc' = "fb_loop"
    /\ UNCHANGED <<req, cvxpy, slv, wf, proc, run>>

\* lines 837-843: the call for column j
FallbackColumn ==
    /\ pc = "fb_loop"
    /\ fb.j < req.m
    /\ wf' = WFCall(AsFloat(req.priority_weights),
                    AsFloat(Column(req.minimums, fb.j)),
                    AsFloat(Column(req.ideals, fb.j)),
                    R(req.capacities[fb.j]))
    /\ fb' = [fb EXCEPT !.calls = fb.calls + 1]
    /\ pc' = "wf"
    /\ UNCHANGED <<req, cvxpy, slv, proc, run>>

\* StoreColumn that writes the returned column into every column
StoreColumnAll(f, out) ==
    [f EXCEPT !.allocations = [i \in DOMAIN f.allocations |->
                                  [k \in DOMAIN f.allocations[i] |-> out[i]]],
              !.j = f.j + 1]

\* line 844: allocations[:, j] = alloc (ValueError when the lengths differ)
StoreColumn(f, out) ==
    [f EXCEPT !.allocations = [i \in DOMAIN f.allocations |->
                                  [f.allocations[i] EXCEPT ![f.j] = out[i]]],
              !.j = f.j + 1]

FallbackStore ==
    /\ pc = "wf"
    /\ wf.pc = "returned"
    /\ IF DOMAIN wf.out = DOMAIN fb.allocations
       THEN fb' = StoreColumn(fb, wf.out) /\ pc' = "fb_loop" /\ UNCHANGED proc
       ELSE proc' = Fatal("ValueError") /\ pc' = "exit" /\ UNCHANGED fb
    /\ wf' = WFIdle
    /\ UNCHANGED <<req, cvxpy, slv, run>>

\* an exception raised inside water_filling reaches main's handler
FallbackRaised ==
    /\ pc = "wf"
    /\ wf.pc = "raised"
    /\ proc' = Fatal(wf.exit)
    /\ pc' = "exit"
    /\ wf' = WFIdle
    /\ UNCHANGED <<req, cvxpy, slv, fb, run>>

\* lines 846-865 and main line 937
FallbackResult(r, f) ==
    [status |-> "sequential_fallback",
     error |-> <<>>,
     allocations |-> f.allocations,
     objective |-> "welfare",
     solver |-> "water_filling",
     utilities |-> [i \in Idx(r.n) |->
                       eval_utility_np(i, "allocations",
                                       FallbackConfig(r.utility_configs, i).cfg)]]

\* lines 846-865: utilities read utility_configs[i] and W[i, :] for i < n;
\* the welfare multiplies c by the n utilities (ValueError when c has
\* another length)
FallbackFinish ==
    /\ pc = "fb_loop"
    /\ fb.j >= req.m
    /\ LET bad == {i \in Idx(req.n) :
                      FallbackConfig(req.utility_configs, i).raises # "None"}
       IN  IF bad # {}
           THEN proc' = Fatal(FallbackConfig(req.utility_configs,
                                  CHOOSE i \in bad : \A k \in bad : i <= k).raises)
           ELSE IF req.W_rows < req.n THEN proc' = Fatal("IndexError")
           ELSE IF Len0(req.priority_weights) # req.n THEN proc' = Fatal("ValueError")
           ELSE proc' = Printed(FallbackResult(req, fb))
    /\ pc' = "exit"
    /\ UNCHANGED <<req, cvxpy, slv, fb, wf, run>>

Next ==
    \/ Main
    \/ JointValidate
    \/ JointCheck
    \/ SolverAttempt
    \/ JointFinish
    \/ FallbackEntry
    \/ FallbackColumn
    \/ WFBegin
    \/ WFLoop
    \/ WFReturn
    \/ FallbackStore
    \/ FallbackRaised
    \/ FallbackFinish

Spec == Init /\ [][Next]_vars

(***************************************************************************)
(* Properties of the request handling (checked under Spec)                 *)
(***************************************************************************)
Exited == pc = "exit"
Results == {proc.stdout[x] : x \in DOMAIN proc.stdout}

OverSubscribed(r) == {j \in Idx(r.m) : MinTotal(r, j) > r.capacities[j]}

\* a valid request: declared shapes, 0 <= min <= ideal, the minimums of every
\* resource within its capacity, priority weights >= 0
ValidRequest(r) ==
    /\ ShapeOK(r)
    /\ \A i \in Idx(r.n) :
          /\ r.priority_weights[i] >= 0
          /\ \A j \in Idx(r.m) :
                0 <= r.minimums[i][j] /\ r.minimums[i][j] <= r.ideals[i][j]
    /\ OverSubscribed(r) = {}

\* the matrix A keeps every entry within [min, ideal] and every column
\* within the capacity
MatrixWithinBounds(r, A) ==
    /\ DOMAIN A = Idx(r.n)
    /\ \A i \in Idx(r.n) :
          /\ DOMAIN A[i] = Idx(r.m)
          /\ \A j \in Idx(r.m) :
                /\ RLe(R(r.minimums[i][j]), A[i][j])
                /\ RLe(A[i][j], R(r.ideals[i][j]))
    /\ \A j \in Idx(r.m) : RLe(RSum(Column(A, j), Idx(r.n)), R(r.capacities[j]))

\* C1: for every valid input the water-filling fallback keeps each column
\* within [min, ideal] and within the capacity after every loop iteration
\* and on every exit path of water_filling, and the allocation matrix that
\* solve_sequential_fallback assembles and returns satisfies
\* min <= A <= ideal and sum over the agents of A <= Q for every resource.
C1_AllocationWithinBounds ==
    /\ WFValid(wf) =>
          /\ wf.pc \in {"loop", "clip"} => WithinBounds(wf, wf.alloc)
          /\ wf.pc = "returned" => WithinBounds(wf, wf.out)
    /\ (~cvxpy /\ ValidRequest(req) /\ fb.calls > 0 /\ fb.j >= req.m) =>
          MatrixWithinBounds(req, fb.allocations)
    /\ (Exited /\ ~cvxpy /\ ValidRequest(req)) =>
          \A res \in Results :
              /\ res.status = "sequential_fallback"
              /\ MatrixWithinBounds(req, res.allocations)

C1_Witness ==
    /\ Exited /\ ~cvxpy /\ ValidRequest(req)
    /\ req.m >= 2
    /\ \E res \in Results :
          /\ res.status = "sequential_fallback"
          /\ \A j \in Idx(req.m) :
                REq(RSum(Column(res.allocations, j), Idx(req.n)), R(req.capacities[j]))
          /\ \E i \in Idx(req.n), j \in Idx(req.m) :
                /\ RLt(R(req.minimums[i][j]), res.allocations[i][j])
                /\ RLt(res.allocations[i][j], R(req.ideals[i][j]))
          /\ \E i \in Idx(req.n), j \in Idx(req.m) :
                /\ req.minimums[i][j] < req.ideals[i][j]
                /\ REq(res.allocations[i][j], R(req.ideals[i][j]))

\* a diagnostic entry that names an over-subscribed resource and its
\* shortfall (given as the two numbers whose difference it is)
NamesShortfall(r, e) ==
    /\ "resource" \in DOMAIN e
    /\ e.resource \in OverSubscribed(r)
    /\ e.min_total - e.capacity = MinTotal(r, e.resource) - r.capacities[e.resource]

\* C2: whenever the minimums of some resource sum to more than its capacity,
\* the result is `infeasible` and its diagnostic names the offending resource
\* and the shortfall, on the backend path and on the fallback path alike.
C2_OversubscriptionReported ==
    (Exited /\ ShapeOK(req) /\ OverSubscribed(req) # {}) =>
        /\ proc.stdout # <<>>
        /\ \A res \in Results :
              /\ res.status = "infeasible"
              /\ \E x \in DOMAIN res.error : NamesShortfall(req, res.error[x])

\* C3: every `infeasible` result carries the normalized minimums (clamped to
\* the ideals) as allocations and negative infinity as objective.
C3_InfeasibleCarriesNormalizedMins ==
    \A res \in Results :
        res.status = "infeasible" =>
            /\ res.allocations = Clamp(req.minimums, req.ideals)
            /\ res.objective = "-inf"

Tried(k) == slv.tried[k]
Failed(k) == Tried(k).outcome \notin Acceptable
Succeeded == slv.tried # <<>> /\ ~Failed(Len(slv.tried))

\* C8: the candidates are tried one at a time in the order CLARABEL, ECOS,
\* SCS; the first acceptable status ends the loop and its candidate's result
\* is returned; a failure never ends the request while a later candidate is
\* untried.
C8_OrderedRetryShortCircuit ==
    /\ Len(slv.tried) <= Len(solvers_to_try)
    /\ \A k \in DOMAIN slv.tried :
          /\ Tried(k).solver = solvers_to_try[k]
          /\ k < Len(slv.tried) => Failed(k)
    /\ (slv.tried # <<>> /\ pc \in {"finish", "exit"}) =>
          (Succeeded \/ Len(slv.tried) = Len(solvers_to_try))
    /\ (slv.tried # <<>> /\ pc = "solve") =>
          (~Succeeded /\ proc = ProcRunning)
    /\ (Exited /\ slv.tried # <<>>) =>
          /\ proc.exit_code = 0
          /\ \A res \in Results :
                IF Succeeded
                THEN /\ res.status = "optimal"
                     /\ res.solver = Tried(Len(slv.tried)).solver
                     /\ res.allocations = <<"A.value", Tried(Len(slv.tried)).solver>>
                ELSE res.status = "infeasible"

C8_Witness ==
    /\ Exited
    /\ Len(slv.tried) = 3
    /\ Tried(1).outcome = "infeasible"
    /\ Tried(2).outcome = "raises"
    /\ Tried(3).outcome = "optimal"
    /\ \E res \in Results : res.status = "optimal" /\ res.solver = "SCS"

\* the failure reason recorded for loop iteration k
Reason(k) ==
    [solver |-> Tried(k).solver,
     text |-> IF Tried(k).outcome = "raises" THEN "raised" ELSE Tried(k).outcome]

RECURSIVE ReasonsUpTo(_)
ReasonsUpTo(k) ==
    IF k = 0 THEN <<>>
    ELSE IF Tried(k).outcome = "missing" THEN ReasonsUpTo(k - 1)
    ELSE Append(ReasonsUpTo(k - 1), Reason(k))

\* C9: when every candidate fails the call returns a result with status
\* `infeasible` whose error is the concatenation of the failure reasons of
\* all attempted candidates, one per failed candidate.
C9_ErrorConcatenatesAllReasons ==
    (Exited /\ slv.tried # <<>> /\ ~Succeeded) =>
        /\ proc.exit_code = 0
        /\ proc.stdout # <<>>
        /\ \A res \in Results :
              /\ res.status = "infeasible"
              /\ res.error = ReasonsUpTo(Len(slv.tried))

\* C9 amended: when every candidate fails the call returns (exit code 0, a
\* printed result) a result with status `infeasible` whose error is the
\* failure reason of the last candidate that failed, the reasons of earlier
\* candidates being overwritten; when no candidate recorded a reason (every
\* name was missing from the backend) the error is the problem status.
C9_ErrorIsLastReason ==
    (Exited /\ slv.tried # <<>> /\ ~Succeeded) =>
        /\ proc.exit_code = 0
        /\ proc.stdout # <<>>
        /\ \A res \in Results :
              /\ res.status = "infeasible"
              /\ LET all == ReasonsUpTo(Len(slv.tried))
                 IN  IF all # <<>>
                     THEN res.error = <<all[Len(all)]>>
                     ELSE res.error = <<[solver |-> "none", text |-> "Problem status",
                                         status |-> "None"]>>

C9_Witness ==
    /\ Exited
    /\ Len(slv.tried) = 3
    /\ Tried(1).outcome = "infeasible"
    /\ Tried(2).outcome = "infeasible"
    /\ Tried(3).outcome = "raises"
    /\ \E res \in Results :
          res.status = "infeasible" /\ res.error = <<[solver |-> "SCS", text |-> "raised"]>>

\* C10: a request with a dimension that disagrees with n_agents/n_resources
\* is rejected before any solve attempt (no solver candidate, no
\* water_filling call) on both paths, with a nonzero exit code and nothing
\* on standard output.
C10_ShapeMismatchRejected ==
    ~ShapeOK(req) =>
        /\ slv.tried = <<>>
        /\ fb.calls = 0
        /\ Exited => (proc.exit_code # 0 /\ proc.stdout = <<>>)


\* the config the specification gives agent i: Linear (None) for null or
\* absent, the one object for every agent, the i-th entry of an array
ConfigOf(r, i) ==
    CASE r.utility_configs.form = "null" -> CfgNone
      [] r.utility_configs.form = "object" -> r.utility_configs.obj
      [] OTHER -> r.utility_configs.arr[i]

TypeOfConfig(cfg) == IF cfg.isNone THEN "LINEAR" ELSE GetType(cfg)

\* C11: null/absent, one config object and an array of n configs are
\* resolved the same way on both paths (Linear for every agent, the object
\* for every agent, the i-th config for agent i), and none of the three
\* forms makes the request fail.
C11_ConfigFormsResolvedAlike ==
    /\ (cvxpy /\ ShapeOK(req) /\ slv.utility_configs # <<>>) =>
          \A i \in Idx(req.n) : slv.utility_configs[i] = ConfigOf(req, i)
    /\ (Exited /\ ValidRequest(req)) =>
          /\ proc.exit_code = 0
          /\ proc.stdout # <<>>
          /\ \A res \in Results :
                /\ res.status = "optimal" =>
                      \A i \in Idx(req.n) :
                          /\ res.utility_types[i] = TypeOfConfig(ConfigOf(req, i))
                          /\ res.utilities[i] =
                                eval_utility_np(i, "allocations", ConfigOf(req, i))
                /\ res.status = "sequential_fallback" =>
                      \A i \in Idx(req.n) :
                          res.utilities[i] =
                              eval_utility_np(i, "allocations", ConfigOf(req, i))


(***************************************************************************)
(* Further properties of water_filling (checked under SpecWF)              *)
(***************************************************************************)
\* the agents still active in the returned allocation
ActiveAtReturn(s) ==
    {i \in DOMAIN s.out : ~s.frozen[i] /\ RLt(s.out[i], s.ideals[i])}

Exhausted(s) == REq(RSum(s.out, DOMAIN s.out), s.capacity)

\* C12: whenever water_filling returns after entering its loop (remaining
\* > 0 at entry, fewer agents than the iteration cap), no agent is active
\* (each is frozen or at its ideal) or the capacity is exhausted (the
\* allocations sum to the capacity); the degenerate branch included.
C12_TerminalCondition ==
    (wf.pc = "returned" /\ wf.exit # "early" /\ Len0(wf.weights) < MaxIter) =>
        (ActiveAtReturn(wf) = {} \/ Exhausted(wf))


\* sum(mins) <= capacity and mins <= ideals
StartsFeasible(s) ==
    /\ DOMAIN s.mins = DOMAIN s.weights
    /\ DOMAIN s.ideals = DOMAIN s.weights
    /\ RLe(RSum(s.mins, DOMAIN s.mins), s.capacity)
    /\ \A i \in DOMAIN s.mins : RLe(s.mins[i], s.ideals[i])

AddedTo(s, S) == RSum([i \in DOMAIN s.alloc |-> Added(s, i)], S)

\* C16: when the call starts with sum(mins) <= capacity and mins <= ideals,
\* at the start of every loop iteration remaining >= 0 and remaining +
\* sum(alloc) = capacity; no allocation decreases from one iteration to the
\* next and alloc[i] >= mins[i] throughout; a bottleneck iteration moves
\* exactly remaining * fill_ratio from `remaining` to the active agents,
\* the bottleneck's assignment to its ideal included.
C16_Conservation ==
    StartsFeasible(wf) =>
        /\ wf.pc = "loop" =>
              /\ RLe(Zero, wf.remaining)
              /\ REq(RAdd(wf.remaining, RSum(wf.alloc, DOMAIN wf.alloc)), wf.capacity)
        /\ wf.pc \in {"loop", "clip"} =>
              \A i \in DOMAIN wf.alloc : RLe(wf.mins[i], wf.alloc[i])
        /\ Stepped(wf) =>
              \A i \in DOMAIN wf.alloc : RLe(wf.last.alloc[i], wf.alloc[i])
        /\ wf.last.kind = "bottleneck" =>
              LET b == wf.last.bottleneck
                  moved == RMul(wf.last.remaining, FillRatio(wf, b))
              IN  /\ REq(wf.last.distributed, moved)
                  /\ REq(wf.remaining, RSub(wf.last.remaining, moved))
                  /\ REq(AddedTo(wf, wf.last.active), moved)
                  /\ REq(Added(wf, b), PrevSlack(wf, b))
                  /\ \A i \in DOMAIN wf.alloc \ wf.last.active :
                        REq(Added(wf, i), Zero)

C16_Witness ==
    /\ StartsFeasible(wf)
    /\ wf.pc = "loop"
    /\ wf.last.kind = "bottleneck"
    /\ RLt(Zero, wf.remaining)
    /\ RLt(Zero, RSum(wf.mins, DOMAIN wf.mins))
    /\ \E i \in wf.last.active :
          i # wf.last.bottleneck /\ RLt(Zero, Added(wf, i))

\* C17: when every priority weight is strictly positive, mins <= ideals,
\* sum(mins) <= capacity and there are fewer agents than the iteration cap,
\* the returned allocation uses all the capacity that can be used:
\* sum(alloc) = min(capacity, sum(ideals)).
C17_WorkConserving ==
    (/\ wf.pc = "returned"
     /\ StartsFeasible(wf)
     /\ Len0(wf.weights) < MaxIter
     /\ \A i \in DOMAIN wf.weights : RLt(Zero, wf.weights[i]))
        => REq(RSum(wf.out, DOMAIN wf.out),
               RMin(wf.capacity, RSum(wf.ideals, DOMAIN wf.ideals)))

FrozenSet(f) == {i \in DOMAIN f : f[i]}

\* C18: every loop iteration that does not break adds exactly one
\* previously active agent to `frozen`, and no agent ever leaves `frozen`;
\* so at most n iterations continue and, with fewer than 100 agents, the
\* loop always exits through a break (no active agent, degenerate split or
\* final proportional split), never by exhausting the 100-iteration cap.
C18_TerminationBound ==
    /\ wf.last.kind = "bottleneck" =>
          /\ wf.last.bottleneck \in wf.last.active
          /\ ~wf.last.frozen[wf.last.bottleneck]
          /\ FrozenSet(wf.frozen) = FrozenSet(wf.last.frozen) \cup {wf.last.bottleneck}
    /\ Stepped(wf) => FrozenSet(wf.last.frozen) \subseteq FrozenSet(wf.frozen)
    /\ wf.last.kind \in {"final", "degenerate"} => wf.frozen = wf.last.frozen
    /\ wf.iter = Cardinality(FrozenSet(wf.frozen))
    /\ wf.iter <= Len0(wf.weights)
    /\ Len0(wf.weights) < MaxIter =>
          /\ wf.exit # "cap"
          /\ wf.pc = "clip" => wf.exit \in {"no_active", "degenerate", "final"}

C18_Witness ==
    /\ wf.pc = "returned"
    /\ wf.exit = "no_active"
    /\ Len0(wf.weights) >= 2
    /\ wf.iter = Len0(wf.weights)
    /\ \A i \in DOMAIN wf.frozen : wf.frozen[i]


(***************************************************************************)
(* Further properties of the request handling (checked under Spec)         *)
(***************************************************************************)
\* column j as water_filling gives it from the inputs of resource j alone
ColumnAlone(r, j) ==
    water_filling(AsFloat(r.priority_weights), AsFloat(Column(r.minimums, j)),
                  AsFloat(Column(r.ideals, j)), R(r.capacities[j]))

InFallbackLoop(p) == p \in {"fb_loop", "wf"}

\* every column already stored is the function of its own resource's
\* inputs, every column not yet stored is untouched
ColumnsIndependent ==
    /\ InFallbackLoop(pc) =>
          \A j \in Idx(req.m) :
              IF j < fb.j
              THEN Column(fb.allocations, j) = ColumnAlone(req, j)
              ELSE \A i \in DOMAIN fb.allocations : fb.allocations[i][j] = Zero
    /\ (Exited /\ ~cvxpy) =>
          \A res \in Results :
              \A j \in Idx(req.m) : Column(res.allocations, j) = ColumnAlone(req, j)

\* a step of the fallback loop changes no input, and changes an entry of
\* the allocation matrix only when it stores the column of the call that
\* has just returned
OwnColumnOnly ==
    /\ req' = req
    /\ (InFallbackLoop(pc) /\ InFallbackLoop(pc')) =>
          \A i \in DOMAIN fb.allocations : \A j \in DOMAIN fb.allocations[i] :
              fb'.allocations[i][j] # fb.allocations[i][j] =>
                  (pc = "wf" /\ wf.pc = "returned" /\ j = fb.j)

Assembled == cvxpy /\ slv.constraints # <<>>

\* C14: for every agent whose config type is LEONTIEF the constraint that
\* links u_i to the agent's allocation in the assembled problem is built
\* from the CES(-5) approximation, the expression get_utility_for_agent
\* returns for LEONTIEF, and not from the Linear utility, whether all
\* agents are LEONTIEF or the types are mixed.
C14_LeontiefLinkedByCES ==
    Assembled =>
        \A i \in DOMAIN slv.constraints :
            TypeOfConfig(slv.utility_configs[i]) = "LEONTIEF" =>
                /\ slv.constraints[i].expr = compute_ces_utility(R(-5))
                /\ slv.constraints[i].expr = slv.utilities[i]
                /\ slv.constraints[i].expr.form # "linear"

\* the dispatch as documented: Linear, Cobb-Douglas, Cobb-Douglas, power
Dispatch(rho) ==
    IF RLt(RAbs(RSub(rho, One)), Tol) THEN "linear"
    ELSE IF RLt(RAbs(rho), Tol) THEN "cobb_douglas"
    ELSE IF RLt(rho, R(-10)) THEN "cobb_douglas"
    ELSE "power"

\* C15: for every rho the CES evaluator and the CES expression builder
\* select the same variant by the same ordered dispatch (Linear when
\* |rho-1| < 0.01, else Cobb-Douglas when |rho| < 0.01, else Cobb-Douglas
\* when rho < -10, else the general power form); the evaluator returns the
\* Linear value at rho = 1 and the Cobb-Douglas value at rho = 0.
C15_SameCESDispatch ==
    Assembled =>
        \A i \in DOMAIN slv.utility_configs :
            LET cfg == slv.utility_configs[i]
                rho == GetRho(cfg)
            IN  TypeOfConfig(cfg) = "CES" =>
                    /\ slv.utilities[i].form = Dispatch(rho)
                    /\ slv.min_utilities[i].form = Dispatch(rho)
                    /\ slv.min_utilities[i].form = slv.utilities[i].form
                    /\ slv.min_utilities[i].rho = slv.utilities[i].rho
                    /\ rho = One =>
                          slv.min_utilities[i] = Value("linear", Zero, i, "mins")
                    /\ rho = Zero =>
                          slv.min_utilities[i] = Value("cobb_douglas", Zero, i, "mins")

Names == {solvers_to_try[k] : k \in DOMAIN solvers_to_try}

\* C19: after any sequence of candidate outcomes a result with status
\* `optimal` names in `solver` the candidate whose attempt produced the
\* acceptable status (never null, never a candidate that failed), and a
\* result with status `infeasible` has `solver` equal to "none".
C19_SolverFieldConsistent ==
    /\ (slv.used_solver = "None") <=> (slv.status \notin Acceptable)
    /\ slv.used_solver # "None" =>
          /\ Succeeded
          /\ slv.used_solver = Tried(Len(slv.tried)).solver
    /\ (Exited /\ cvxpy) =>
          \A res \in Results :
              /\ res.status \in {"optimal", "infeasible"}
              /\ res.status = "optimal" =>
                    /\ Succeeded
                    /\ res.solver \in Names
                    /\ res.solver = Tried(Len(slv.tried)).solver
                    /\ \A k \in DOMAIN slv.tried :
                          Failed(k) => Tried(k).solver # res.solver
              /\ res.status = "infeasible" => res.solver = "none"

C19_Witness ==
    /\ Exited /\ cvxpy
    /\ Len(slv.tried) = 3
    /\ Tried(1).outcome = "missing"
    /\ Tried(2).outcome = "raises"
    /\ Tried(3).outcome = "optimal_inaccurate"
    /\ \E res \in Results : res.status = "optimal" /\ res.solver = "SCS"

=============================================================================
